---------------------------- MODULE Spec2Model ----------------------------
(***************************************************************************)
(* Model of src/docs-test/calculadora.py: class CalculadoraFinanceira      *)
(* (juros_compostos, calcular_parcela, tabela_amortizacao, roi).           *)
(*                                                                         *)
(* NUMBERS.  The code computes with Python floats (IEEE-754 binary64) and  *)
(* rounds with the builtin round().  A float is modelled by a record       *)
(*     [n, d, tiny, x]                                                     *)
(* whose value is the reduced fraction n/d (d > 0), scaled by 2^-100 when  *)
(* tiny is TRUE; x says that the binary64 value the code holds is exactly  *)
(* this fraction.  Amounts are integers or halves, rates are dyadic and    *)
(* precisao is -1 or 0, so every rounded result is an integer and, but for *)
(* the quotients of calcular_parcela and roi, every intermediate value is  *)
(* a short dyadic fraction: binary64 arithmetic is exact on those, and the *)
(* fraction arithmetic below is what the code computes.  A quotient that   *)
(* is not dyadic carries x = FALSE: its float differs from the fraction by *)
(* a relative error below 2^-52, which can change a rounding only at an    *)
(* exact tie, and there both neighbours are admitted (RoundUnits).         *)
(* A tiny value stands for a positive float below the half-ulp of 1.0:     *)
(* 1 + tiny is 1.0 in binary64 (FAdd).                                     *)
(***************************************************************************)
EXTENDS Integers, Sequences, FiniteSets

\* ------------------------------------------------------------ bounds
MaxTotal == 8
MaxParcelas == 5

\* ------------------------------------------------- float arithmetic
Abs(a) == IF a < 0 THEN -a ELSE a

RECURSIVE GCD(_, _)
GCD(a, b) == IF b = 0 THEN a ELSE GCD(b, a % b)

LCM(a, b) == (a \div GCD(a, b)) * b

RECURSIVE IsPow2(_)
IsPow2(d) == d = 1 \/ (d > 1 /\ d % 2 = 0 /\ IsPow2(d \div 2))

RECURSIVE Pow10(_)
Pow10(k) == IF k <= 0 THEN 1 ELSE 10 * Pow10(k - 1)

\* The float of value n/d (d > 0), reduced; exact only if xin and dyadic.
Mk(n, d, tiny, xin) ==
    LET g == GCD(Abs(n), d)
        nn == n \div g
        dd == d \div g
    IN  [n |-> nn, d |-> dd, tiny |-> tiny /\ nn # 0, x |-> xin /\ IsPow2(dd)]

Frac(n, d) == Mk(n, d, FALSE, TRUE)
Zero == Frac(0, 1)
One == Frac(1, 1)
Hundred == Frac(100, 1)
\* A positive float below 2^-53, such as 2.0**-100 or 1e-17.
Tiny == Mk(1, 1, TRUE, TRUE)

FNeg(a) == [a EXCEPT !.n = -a.n]

\* a + b.  An operand 2^-100 times smaller than the other is below half an
\* ulp of it: the sum rounds to the larger operand.
FAdd(a, b) ==
    IF a.tiny # b.tiny
    THEN LET big == IF a.tiny THEN b ELSE a
             small == IF a.tiny THEN a ELSE b
         IN  IF big.n # 0 THEN big ELSE small
    ELSE LET l == LCM(a.d, b.d)
         IN  Mk(a.n * (l \div a.d) + b.n * (l \div b.d), l, a.tiny, a.x /\ b.x)

FSub(a, b) == FAdd(a, FNeg(b))

FMul(a, b) ==
    LET g1 == GCD(Abs(a.n), b.d)
        g2 == GCD(Abs(b.n), a.d)
    IN  Mk((a.n \div g1) * (b.n \div g2), (a.d \div g2) * (b.d \div g1),
           a.tiny \/ b.tiny, a.x /\ b.x)

\* a / b for b # 0 (the code's division raises ZeroDivisionError on b = 0).
FDiv(a, b) ==
    LET sgn == IF b.n < 0 THEN -1 ELSE 1
        g1 == GCD(Abs(a.n), Abs(b.n))
        g2 == GCD(b.d, a.d)
    IN  Mk(sgn * (a.n \div g1) * (b.d \div g2), (a.d \div g2) * (Abs(b.n) \div g1),
           a.tiny /\ ~b.tiny, a.x /\ b.x)

\* a ** k for an int k >= 0.
RECURSIVE FPow(_, _)
FPow(a, k) == IF k <= 0 THEN One ELSE FMul(a, FPow(a, k - 1))

FIsZero(a) == a.n = 0
FLeqZero(a) == a.n <= 0

\* max(0, a)
Max0(a) == IF a.n > 0 THEN a ELSE Zero

\* ------------------------------------------------------- round(v, p)
\* v * 10^p as the fraction num/den.
ScaledNum(v, p) == IF p >= 0 THEN v.n * Pow10(p) ELSE v.n
ScaledDen(v, p) == IF p >= 0 THEN v.d ELSE v.d * Pow10(-p)

\* The integers k with round(v, p) = k * 10^-p.  The builtin round() rounds
\* the binary value to the nearest multiple and an exact tie to the even
\* one; at a tie of a value whose float is not exact the float lies on
\* either side.
RoundUnits(v, p) ==
    IF v.tiny THEN {0}
    ELSE LET num == ScaledNum(v, p)
             den == ScaledDen(v, p)
             fl == num \div den
             twice == 2 * (num - fl * den)
         IN  IF twice < den THEN {fl}
             ELSE IF twice > den THEN {fl + 1}
             ELSE IF v.x THEN {IF fl % 2 = 0 THEN fl ELSE fl + 1}
             ELSE {fl, fl + 1}

FromUnits(k, p) == IF p >= 0 THEN Frac(k, Pow10(p)) ELSE Frac(k * Pow10(-p), 1)

RoundOutcomes(v, p) == {FromUnits(k, p) : k \in RoundUnits(v, p)}

\* ------------------------------------------------------------ inputs
\* precisao values given to the constructor.
Precisoes == {-1, 0}
\* valor_total, investimento_inicial, retorno_final: amounts of money.
Totais == {Frac(t, 1) : t \in 0..MaxTotal}
\* principal: halves as well.
Principais == {Frac(t, 2) : t \in 0..MaxTotal}
\* taxa_mensal, taxa.
Taxas == {Frac(-1, 4), Zero, Tiny, Frac(1, 4), Frac(1, 2), One}
\* num_parcelas.
Parcelas == (-1)..MaxParcelas
\* periodos.
Periodos == 0..MaxParcelas

\* ------------------------------------------------------------- state
VARIABLES
    precisao,       \* self.precisao
    pc,             \* "idle" | "loop" (inside tabela_amortizacao) | "done"
    call,           \* the call in progress: its name and arguments
    outcome,        \* "none" | "return" | "ValueError" | "ZeroDivisionError"
    result,         \* the float a call returned (Zero when there is none)
    parcela_valor,  \* tabela_amortizacao's local
    saldo,          \* tabela_amortizacao's local
    i,              \* tabela_amortizacao's loop variable
    tabela          \* tabela_amortizacao's local, the list it returns

vars == <<precisao, pc, call, outcome, result, parcela_valor, saldo, i, tabela>>

NoCall == [op |-> "none"]

Return(v) == [kind |-> "return", value |-> v]
Raise(e) == [kind |-> e, value |-> Zero]

\* ------------------------------------------------------ the methods
\* principal * ((1 + taxa) ** periodos)
JurosMontante(principal, taxa, periodos) ==
    FMul(principal, FPow(FAdd(One, taxa), periodos))

juros_compostos(principal, taxa, periodos, p) ==
    {Return(v) : v \in RoundOutcomes(JurosMontante(principal, taxa, periodos), p)}

\* taxa_mensal <= 0
TaxaInvalida(taxa_mensal) == FLeqZero(taxa_mensal)

\* The check written with < in place of <=.
ParcelasInvalidasStrict(num_parcelas) == num_parcelas < 0
\* num_parcelas <= 0
ParcelasInvalidas(num_parcelas) == num_parcelas <= 0

\* (1 + taxa_mensal) ** num_parcelas - 1, the divisor
ParcelaDivisor(taxa_mensal, num_parcelas) ==
    FSub(FPow(FAdd(One, taxa_mensal), num_parcelas), One)

\* valor_total * ((taxa_mensal * (1 + taxa_mensal) ** num_parcelas) / divisor)
ParcelaValor(valor_total, taxa_mensal, num_parcelas) ==
    FMul(valor_total,
         FDiv(FMul(taxa_mensal, FPow(FAdd(One, taxa_mensal), num_parcelas)),
              ParcelaDivisor(taxa_mensal, num_parcelas)))

calcular_parcela(valor_total, taxa_mensal, num_parcelas, p) ==
    IF TaxaInvalida(taxa_mensal) THEN {Raise("ValueError")}
    ELSE IF ParcelasInvalidas(num_parcelas) THEN {Raise("ValueError")}
    ELSE IF FIsZero(ParcelaDivisor(taxa_mensal, num_parcelas))
         THEN {Raise("ZeroDivisionError")}
    ELSE {Return(v) :
            v \in RoundOutcomes(ParcelaValor(valor_total, taxa_mensal, num_parcelas), p)}

\* ((retorno_final - investimento_inicial) / investimento_inicial) * 100
RoiValor(investimento_inicial, retorno_final) ==
    FMul(FDiv(FSub(retorno_final, investimento_inicial), investimento_inicial), Hundred)

roi(investimento_inicial, retorno_final, p) ==
    IF FIsZero(investimento_inicial) THEN {Raise("ZeroDivisionError")}
    ELSE {Return(v) : v \in RoundOutcomes(RoiValor(investimento_inicial, retorno_final), p)}

\* The loop body of tabela_amortizacao.
Juros(s, taxa_mensal) == FMul(s, taxa_mensal)
Amortizacao(pv, juros) == FSub(pv, juros)

\* The update written as saldo += amortizacao.
SaldoSeguinteAdd(s, amortizacao) == FAdd(s, amortizacao)
\* The update written as saldo = max(0, saldo - amortizacao).
SaldoSeguinteFloored(s, amortizacao) == Max0(FSub(s, amortizacao))
\* saldo -= amortizacao
SaldoSeguinte(s, amortizacao) == FSub(s, amortizacao)

\* The row reporting saldo itself, without the floor.
SaldoReportadoRaw(s) == s
\* max(0, saldo)
SaldoReportado(s) == Max0(s)

\* The row numbered as by range(0, num_parcelas).
RowFromZero(k, vp, j, a, s) ==
    [parcela |-> k - 1, valor_parcela |-> vp, juros |-> j, amortizacao |-> a,
     saldo_devedor |-> s]
\* The dict appended to tabela.
Row(k, vp, j, a, s) ==
    [parcela |-> k, valor_parcela |-> vp, juros |-> j, amortizacao |-> a,
     saldo_devedor |-> s]

\* ----------------------------------------------------------- actions
Init ==
    /\ precisao \in Precisoes
    /\ pc = "idle"
    /\ call = NoCall
    /\ outcome = "none"
    /\ result = Zero
    /\ parcela_valor = Zero
    /\ saldo = Zero
    /\ i = 0
    /\ tabela = <<>>

Locals == <<parcela_valor, saldo, i, tabela>>

\* calc.juros_compostos(principal, taxa, periodos)
CallJurosCompostos ==
    /\ pc = "idle"
    /\ \E principal \in Principais, taxa \in Taxas, periodos \in Periodos :
         /\ call' = [op |-> "juros_compostos", principal |-> principal,
                     taxa |-> taxa, periodos |-> periodos]
         /\ \E r \in juros_compostos(principal, taxa, periodos, precisao) :
              outcome' = r.kind /\ result' = r.value
    /\ pc' = "done"
    /\ UNCHANGED <<precisao, Locals>>

\* calc.calcular_parcela(valor_total, taxa_mensal, num_parcelas)
CallCalcularParcela ==
    /\ pc = "idle"
    /\ \E valor_total \in Totais, taxa_mensal \in Taxas, num_parcelas \in Parcelas :
         /\ call' = [op |-> "calcular_parcela", valor_total |-> valor_total,
                     taxa_mensal |-> taxa_mensal, num_parcelas |-> num_parcelas]
         /\ \E r \in calcular_parcela(valor_total, taxa_mensal, num_parcelas, precisao) :
              outcome' = r.kind /\ result' = r.value
    /\ pc' = "done"
    /\ UNCHANGED <<precisao, Locals>>

\* calc.roi(investimento_inicial, retorno_final)
CallRoi ==
    /\ pc = "idle"
    /\ \E investimento_inicial \in Totais, retorno_final \in Totais :
         /\ call' = [op |-> "roi", investimento_inicial |-> investimento_inicial,
                     retorno_final |-> retorno_final]
         /\ \E r \in roi(investimento_inicial, retorno_final, precisao) :
              outcome' = r.kind /\ result' = r.value
    /\ pc' = "done"
    /\ UNCHANGED <<precisao, Locals>>

\* The same step, had it reset self.precisao for its own computation.
TabelaBeginTouchesPrecisao ==
    /\ pc = "idle"
    /\ \E valor_total \in Totais, taxa_mensal \in Taxas, num_parcelas \in Parcelas :
         /\ call' = [op |-> "tabela_amortizacao", valor_total |-> valor_total,
                     taxa_mensal |-> taxa_mensal, num_parcelas |-> num_parcelas]
         /\ \E r \in calcular_parcela(valor_total, taxa_mensal, num_parcelas, precisao) :
              IF r.kind = "return"
              THEN /\ parcela_valor' = r.value
                   /\ saldo' = valor_total
                   /\ tabela' = <<>>
                   /\ i' = 1
                   /\ pc' = "loop"
                   /\ outcome' = "none"
              ELSE /\ outcome' = r.kind
                   /\ pc' = "done"
                   /\ UNCHANGED Locals
    /\ precisao' = 0
    /\ UNCHANGED result

\* calc.tabela_amortizacao(valor_total, taxa_mensal, num_parcelas), up to the
\* loop: the call of calcular_parcela (whose exception propagates), saldo and
\* tabela.
TabelaBegin ==
    /\ pc = "idle"
    /\ \E valor_total \in Totais, taxa_mensal \in Taxas, num_parcelas \in Parcelas :
         /\ call' = [op |-> "tabela_amortizacao", valor_total |-> valor_total,
                     taxa_mensal |-> taxa_mensal, num_parcelas |-> num_parcelas]
         /\ \E r \in calcular_parcela(valor_total, taxa_mensal, num_parcelas, precisao) :
              IF r.kind = "return"
              THEN /\ parcela_valor' = r.value
                   /\ saldo' = valor_total
                   /\ tabela' = <<>>
                   /\ i' = 1
                   /\ pc' = "loop"
                   /\ outcome' = "none"
              ELSE /\ outcome' = r.kind
                   /\ pc' = "done"
                   /\ UNCHANGED Locals
    /\ UNCHANGED <<precisao, result>>

\* One iteration of "for i in range(1, num_parcelas + 1)".
TabelaLoop ==
    /\ pc = "loop"
    /\ i <= call.num_parcelas
    /\ LET juros == Juros(saldo, call.taxa_mensal)
           amortizacao == Amortizacao(parcela_valor, juros)
           novo == SaldoSeguinte(saldo, amortizacao)
       IN  /\ saldo' = novo
           /\ \E vp \in RoundOutcomes(parcela_valor, precisao),
                 j \in RoundOutcomes(juros, precisao),
                 a \in RoundOutcomes(amortizacao, precisao),
                 s \in RoundOutcomes(SaldoReportado(novo), precisao) :
                tabela' = Append(tabela, Row(i, vp, j, a, s))
    /\ i' = i + 1
    /\ UNCHANGED <<precisao, pc, call, outcome, result, parcela_valor>>

\* "return tabela", once the range is exhausted.
TabelaReturn ==
    /\ pc = "loop"
    /\ i > call.num_parcelas
    /\ pc' = "done"
    /\ outcome' = "return"
    /\ UNCHANGED <<precisao, call, result, Locals>>

\* The call is over: the caller has the result or the exception, the frame
\* and its locals are gone; only self.precisao remains.
Finish ==
    /\ pc = "done"
    /\ pc' = "idle"
    /\ call' = NoCall
    /\ outcome' = "none"
    /\ result' = Zero
    /\ parcela_valor' = Zero
    /\ saldo' = Zero
    /\ i' = 0
    /\ tabela' = <<>>
    /\ UNCHANGED precisao

Next ==
    \/ CallJurosCompostos
    \/ CallCalcularParcela
    \/ CallRoi
    \/ TabelaBegin
    \/ TabelaLoop
    \/ TabelaReturn
    \/ Finish

Spec == Init /\ [][Next]_vars

\* ------------------------------------------------- claims: helpers
FLt(a, b) == FSub(a, b).n < 0
FLeq(a, b) == FSub(a, b).n <= 0
FAbs(a) == IF a.n < 0 THEN FNeg(a) ELSE a

InTabela == call.op = "tabela_amortizacao"
TabelaReturned == InTabela /\ pc = "done" /\ outcome = "return"
\* The rows built so far belong to a call that has not raised.
TabelaRunning == InTabela /\ outcome \in {"none", "return"}

ArgsInvalid == call.taxa_mensal.n <= 0 \/ call.num_parcelas <= 0

\* b_k: the running balance after k periods, never rounded:
\* b_0 = valor_total, b_k = b_(k-1) - (installment - b_(k-1) * taxa_mensal).
RECURSIVE Balance(_, _, _, _)
Balance(total, taxa, pv, k) ==
    IF k <= 0 THEN total
    ELSE LET b == Balance(total, taxa, pv, k - 1)
         IN  FSub(b, FSub(pv, FMul(b, taxa)))

BalanceAt(k) == Balance(call.valor_total, call.taxa_mensal, parcela_valor, k)
InterestAt(k) == FMul(BalanceAt(k - 1), call.taxa_mensal)
PrincipalAt(k) == FSub(parcela_valor, InterestAt(k))

RECURSIVE SumAmortizacao(_)
SumAmortizacao(rows) ==
    IF rows = <<>> THEN Zero
    ELSE FAdd(rows[1].amortizacao, SumAmortizacao(Tail(rows)))

\* decimal.ROUND_HALF_UP: to the nearest multiple of 10^-p, a tie away from zero.
RoundHalfUp(v, p) ==
    IF v.tiny THEN Zero
    ELSE LET num == ScaledNum(v, p)
             den == ScaledDen(v, p)
             fl == num \div den
             twice == 2 * (num - fl * den)
         IN  FromUnits(IF twice < den THEN fl
                       ELSE IF twice > den THEN fl + 1
                       ELSE IF num >= 0 THEN fl + 1 ELSE fl, p)

\* --------------------------------------------------------------- C1
\* C1: a finished calcular_parcela call raised ValueError if and only if
\* taxa_mensal <= 0 or num_parcelas <= 0, and with taxa_mensal > 0 and
\* num_parcelas > 0 it returned an amount (no error of any kind).
C1_ParcelaFailsIffInvalid ==
    (call.op = "calcular_parcela" /\ pc = "done") =>
        /\ (outcome = "ValueError") <=> ArgsInvalid
        /\ ~ArgsInvalid => outcome = "return"

\* --------------------------------------------------------------- C2
\* C2: the last row of a returned schedule has saldo_devedor = 0.
C2_LastBalanceZero ==
    (TabelaReturned /\ Len(tabela) >= 1) =>
        tabela[Len(tabela)].saldo_devedor = Zero

\* --------------------------------------------------------------- C3
\* C3: in a returned schedule the sum of the amortizacao fields differs from
\* valor_total by at most num_parcelas * 10^-precisao.
C3_PrincipalSumsToTotal ==
    TabelaReturned =>
        FLeq(FAbs(FSub(SumAmortizacao(tabela), call.valor_total)),
             FromUnits(call.num_parcelas, precisao))

\* --------------------------------------------------------------- C4
\* C4: a returned schedule has exactly num_parcelas rows and its k-th row is
\* numbered k; the rows built so far are numbered 1, 2, ... at every moment.
C4_RowCountAndNumbering ==
    InTabela =>
        /\ \A k \in 1..Len(tabela) : tabela[k].parcela = k
        /\ TabelaReturned => Len(tabela) = call.num_parcelas

C4_Witness == TabelaReturned /\ Len(tabela) >= 3 /\ tabela[3].parcela = 3

\* --------------------------------------------------------------- C5
\* C5: tabela_amortizacao raises ValueError exactly when taxa_mensal <= 0 or
\* num_parcelas <= 0; with such arguments it never enters its loop, and a
\* call that raised (any error) has built no row.
C5_TabelaFailsBeforeAnyRow ==
    (InTabela /\ pc # "idle") =>
        /\ pc = "done" => ((outcome = "ValueError") <=> ArgsInvalid)
        /\ ArgsInvalid => (pc = "done" /\ outcome = "ValueError")
        /\ outcome \notin {"none", "return"} => (tabela = <<>> /\ pc = "done")

C5_Witness ==
    /\ InTabela /\ pc = "done" /\ outcome = "ValueError" /\ tabela = <<>>
    /\ call.taxa_mensal.n > 0 /\ call.num_parcelas <= 0

\* --------------------------------------------------------------- C6
\* C6: every row of a schedule, the last included, has saldo_devedor >= 0.
C6_BalanceNeverNegative ==
    \A k \in 1..Len(tabela) : tabela[k].saldo_devedor.n >= 0

\* The running balance went below zero and the row reports 0.
C6_Witness ==
    /\ TabelaReturned /\ Len(tabela) >= 1
    /\ saldo.n < 0
    /\ tabela[Len(tabela)].saldo_devedor = Zero

\* --------------------------------------------------------------- C7
\* C7: every value returned by juros_compostos, calcular_parcela and roi, and
\* every monetary field of a schedule row, is the computed value rounded to
\* precisao places half-up (a tie is rounded up, never to the even neighbour).
C7_RoundsHalfUp ==
    (pc = "done" /\ outcome = "return") =>
        /\ call.op = "juros_compostos" =>
             result = RoundHalfUp(JurosMontante(call.principal, call.taxa,
                                                call.periodos), precisao)
        /\ call.op = "calcular_parcela" =>
             result = RoundHalfUp(ParcelaValor(call.valor_total, call.taxa_mensal,
                                               call.num_parcelas), precisao)
        /\ call.op = "roi" =>
             result = RoundHalfUp(RoiValor(call.investimento_inicial,
                                           call.retorno_final), precisao)
        /\ InTabela =>
             \A k \in 1..Len(tabela) :
                /\ tabela[k].valor_parcela = RoundHalfUp(parcela_valor, precisao)
                /\ tabela[k].juros = RoundHalfUp(InterestAt(k), precisao)
                /\ tabela[k].amortizacao = RoundHalfUp(PrincipalAt(k), precisao)
                /\ tabela[k].saldo_devedor
                     = RoundHalfUp(Max0(BalanceAt(k)), precisao)

\* --------------------------------------------------------------- C8
\* C8: no step of any call, returning or raising, changes precisao; a
\* finished scalar call's outcome is one that its arguments and the
\* construction-time precisao alone determine, and the loop of
\* tabela_amortizacao starts from this call's valor_total and an empty list.
C8_Step ==
    /\ precisao' = precisao
    /\ (pc' = "done" /\ call'.op = "juros_compostos") =>
          [kind |-> outcome', value |-> result']
             \in juros_compostos(call'.principal, call'.taxa, call'.periodos, precisao)
    /\ (pc' = "done" /\ call'.op = "calcular_parcela") =>
          [kind |-> outcome', value |-> result']
             \in calcular_parcela(call'.valor_total, call'.taxa_mensal,
                                  call'.num_parcelas, precisao)
    /\ (pc' = "done" /\ call'.op = "roi") =>
          [kind |-> outcome', value |-> result']
             \in roi(call'.investimento_inicial, call'.retorno_final, precisao)
    /\ (pc = "idle" /\ pc' = "loop") =>
          (saldo' = call'.valor_total /\ tabela' = <<>> /\ i' = 1)

C8_PrecisaoImmutable == [][C8_Step]_vars

\* A schedule was returned by a calculator built with precisao = -1.
C8_Witness ==
    TabelaReturned /\ Len(tabela) >= 2 /\ precisao = -1 /\ parcela_valor.n > 0

\* --------------------------------------------------------------- C9
RowsConstantInstallment ==
    \A k \in 1..Len(tabela) :
        Return(tabela[k].valor_parcela)
            \in calcular_parcela(call.valor_total, call.taxa_mensal,
                                 call.num_parcelas, precisao)

C10_BalanceCarriedUnrounded ==
    TabelaRunning =>
        /\ saldo = BalanceAt(Len(tabela))
        /\ \A k \in 1..Len(tabela) :
              /\ tabela[k].juros \in RoundOutcomes(InterestAt(k), precisao)
              /\ tabela[k].amortizacao \in RoundOutcomes(PrincipalAt(k), precisao)
              /\ tabela[k].saldo_devedor
                    \in RoundOutcomes(Max0(BalanceAt(k)), precisao)

\* A later row was computed from a balance that is not a multiple of
\* 10^-precisao, and one from a balance below zero.
C10_Witness ==
    /\ TabelaReturned
    /\ \E k \in 1..(Len(tabela) - 1) : BalanceAt(k) \notin RoundOutcomes(BalanceAt(k), precisao)
    /\ \E k \in 1..(Len(tabela) - 1) : BalanceAt(k).n < 0

=============================================================================
